---- MODULE Spec2Model ----
(***************************************************************************)
(* The turn engine of the Kira Suspicion Simulator (DeathNoteGame):        *)
(* logic.run_step over game_state.GameState, called by app.step, and       *)
(* app.reset.  Texts are sequences of one-character strings, so that the   *)
(* classifier's substring tests are computed the way Python's `in` does.   *)
(* Message texts are abstracted to tags; everything else is as coded.      *)
(***************************************************************************)
EXTENDS Integers, Sequences, FiniteSets, TLC

VARIABLES
    turn,                      \* GameState.turn
    location,                  \* GameState.location
    suspicion_L,               \* GameState.suspicion_L
    suspicion_task_force,      \* GameState.suspicion_task_force
    suspicion_public,          \* GameState.suspicion_public
    notebook_hidden,           \* GameState.notebook_hidden
    l_investigation_progress,  \* GameState.l_investigation_progress
    flags,                     \* GameState.flags: a dict, a function on the keys present
    history,                   \* GameState.history: the key of each entry, in order
    attrs,                     \* attributes set on the instance that are no dataclass field
    last_text,                 \* run_step's local text when the last call ended
    action_label,              \* run_step's local action_label when the last call ended
    event_messages,            \* run_step's local event_messages when the last call ended
    system_output,             \* which text the last call built, "none" if it built none
    narration,                 \* how far the last call got with generate_narration
    outcome,                   \* how the last call ended: returned, or the exception raised
    in_flight                  \* app.step requests that loaded game_state and have not
                               \* yet ended, each with the object it holds

vars ==
    << turn, location, suspicion_L, suspicion_task_force, suspicion_public,
       notebook_hidden, l_investigation_progress, flags, history, attrs, last_text,
       action_label, event_messages, system_output, narration, outcome, in_flight >>

\* ------------------------------------------------------------------ bounds

\* Spec: run_step is called at most MaxTurn times between two resets.
MaxTurn == 5

\* SpecLong: at most MaxTurnLong calls between two resets.
MaxTurnLong == 11

\* SpecConc: a request starts only while game_state.turn is below MaxTurnConc.
MaxTurnConc == 6

\* ------------------------------------------------------- program constants

TV_TARGET_FLAG == "tv_target_ready"
SECOND_KIRA_REVEALED_FLAG == "second_kira_revealed"
SECOND_KIRA_FRIEND_FLAG == "second_kira_friend"
L_NAME_KNOWN_FLAG == "l_name_known"

\* random.random() is modelled in hundredths: a sample r stands for r/100.
TV_GRANT_THRESHOLD == 35
INVESTIGATE_FAIL_THRESHOLD == 50
RandomSamples == {34, 35, 49, 50}

\* ------------------------------------------------------------ phrase tables

W_status == <<"s","t","a","t","u","s">>
W_write == <<"w","r","i","t","e">>
W_name == <<"n","a","m","e">>
W_cooperate == <<"c","o","o","p","e","r","a","t","e">>
W_help == <<"h","e","l","p">>
W_investigation == <<"i","n","v","e","s","t","i","g","a","t","i","o","n">>

LOOK_AROUND_TEXTS ==
  { <<"l","o","o","k">>,
    <<"l","o","o","k"," ","a","r","o","u","n","d">>,
    <<"l","o","o","k"," ","a","r","o","u","n","d"," ","t","h","e"," ","r","o","o","m">>,
    <<"w","h","e","r","e"," ","c","a","n"," ","i"," ","g","o">> }

WATCH_TV_PHRASES ==
  { <<"w","a","t","c","h"," ","t","v">>,
    <<"w","a","t","c","h"," ","t","h","e"," ","t","v">>,
    <<"t","u","r","n"," ","o","n"," ","t","v">>,
    <<"t","u","r","n"," ","o","n"," ","t","h","e"," ","t","v">>,
    <<"w","a","t","c","h"," ","t","h","e"," ","n","e","w","s">>,
    <<"w","a","t","c","h"," ","n","e","w","s">>,
    <<"c","h","e","c","k"," ","t","h","e"," ","n","e","w","s">>,
    <<"l","o","o","k"," ","a","t"," ","t","h","e"," ","t","v">>,
    <<"l","o","o","k"," ","a","t"," ","t","v">>,
    <<"l","o","o","k"," ","a","t"," ","t","h","e"," ","s","c","r","e","e","n">>,
    <<"w","a","t","c","h"," ","t","h","e"," ","s","c","r","e","e","n">>,
    <<"w","a","t","c","h"," ","a"," ","s","c","r","e","e","n">> }

ALIBI_KEYWORDS ==
  { <<"a","l","i","b","i">>,
    <<"c","o","v","e","r">>,
    <<"l","i","e">>,
    <<"e","x","c","u","s","e">> }

HIDE_PHRASES ==
  { <<"h","i","d","e">>,
    <<"m","o","v","e"," ","t","h","e"," ","n","o","t","e","b","o","o","k">>,
    <<"r","e","l","o","c","a","t","e">> }

LAY_LOW_PHRASES ==
  { <<"l","a","y"," ","l","o","w">>,
    <<"d","o"," ","n","o","t","h","i","n","g">>,
    <<"s","t","a","y"," ","q","u","i","e","t">> }

MOVE_HOME_PHRASES ==
  { <<"g","o"," ","h","o","m","e">>,
    <<"r","e","t","u","r","n"," ","h","o","m","e">>,
    <<"b","a","c","k"," ","h","o","m","e">>,
    <<"t","o"," ","m","y"," ","r","o","o","m">>,
    <<"t","o"," ","m","y"," ","h","o","u","s","e">> }

MOVE_SCHOOL_PHRASES ==
  { <<"g","o"," ","t","o"," ","s","c","h","o","o","l">>,
    <<"g","o"," ","t","o"," ","c","l","a","s","s">>,
    <<"g","o"," ","t","o"," ","c","a","m","p","u","s">>,
    <<"t","o"," ","s","c","h","o","o","l">> }

MOVE_HQ_PHRASES ==
  { <<"t","a","s","k"," ","f","o","r","c","e"," ","h","q">>,
    <<"g","o"," ","t","o"," ","h","q">>,
    <<"g","o"," ","t","o"," ","t","a","s","k"," ","f","o","r","c","e">>,
    <<"m","e","e","t"," ","t","h","e"," ","t","a","s","k"," ","f","o","r","c","e">>,
    <<"g","o"," ","t","o"," ","p","o","l","i","c","e">> }

MOVE_DOWNTOWN_PHRASES ==
  { <<"g","o"," ","d","o","w","n","t","o","w","n">>,
    <<"g","o"," ","o","u","t","s","i","d","e">>,
    <<"g","o"," ","i","n","t","o"," ","t","h","e"," ","c","i","t","y">>,
    <<"w","a","l","k"," ","a","r","o","u","n","d"," ","t","o","w","n">>,
    <<"g","o"," ","o","u","t">> }

INVESTIGATE_L_PHRASES ==
  { <<"i","n","v","e","s","t","i","g","a","t","e"," ","l">>,
    <<"s","t","u","d","y"," ","l">>,
    <<"r","e","s","e","a","r","c","h"," ","l">>,
    <<"a","n","a","l","y","z","e"," ","l">>,
    <<"l","o","o","k"," ","i","n","t","o"," ","l">>,
    <<"l","e","a","r","n"," ","a","b","o","u","t"," ","l">> }

BEFRIEND_PHRASES ==
  { <<"b","e","f","r","i","e","n","d"," ","s","e","c","o","n","d"," ","k","i","r","a">>,
    <<"a","l","l","y"," ","w","i","t","h"," ","s","e","c","o","n","d"," ","k","i","r","a">>,
    <<"a","l","l","y"," ","w","i","t","h"," ","t","h","e"," ","s","e","c","o","n","d"," ","k","i","r","a">>,
    <<"c","o","n","t","a","c","t"," ","s","e","c","o","n","d"," ","k","i","r","a">>,
    <<"m","e","e","t"," ","s","e","c","o","n","d"," ","k","i","r","a">>,
    <<"w","o","r","k"," ","w","i","t","h"," ","s","e","c","o","n","d"," ","k","i","r","a">> }

DISCOVER_NAME_PHRASES ==
  { <<"l","'","s"," ","r","e","a","l"," ","n","a","m","e">>,
    <<"l","'","s"," ","t","r","u","e"," ","n","a","m","e">>,
    <<"f","i","n","d"," ","l","'","s"," ","n","a","m","e">>,
    <<"l","e","a","r","n"," ","l","'","s"," ","n","a","m","e">>,
    <<"d","i","s","c","o","v","e","r"," ","l","'","s"," ","n","a","m","e">>,
    <<"f","i","g","u","r","e"," ","o","u","t"," ","l","'","s"," ","n","a","m","e">>,
    <<"k","n","o","w"," ","l","'","s"," ","n","a","m","e">> }

IN_status == <<"s","t","a","t","u","s">>
IN_status_raw == <<" ","S","t","a","t","u","s"," ">>
IN_look == <<"l","o","o","k"," ","a","r","o","u","n","d">>
IN_write == <<"w","r","i","t","e"," ","a"," ","n","a","m","e">>
IN_write_move == <<"w","r","i","t","e"," ","h","i","s"," ","n","a","m","e"," ","t","h","e","n"," ","g","o"," ","h","o","m","e">>
IN_watch == <<"w","a","t","c","h"," ","t","v">>
IN_alibi == <<"c","r","e","a","t","e"," ","a","n"," ","a","l","i","b","i">>
IN_cooperate == <<"c","o","o","p","e","r","a","t","e">>
IN_help_inv == <<"h","e","l","p"," ","t","h","e"," ","i","n","v","e","s","t","i","g","a","t","i","o","n">>
IN_hide == <<"h","i","d","e"," ","t","h","e"," ","n","o","t","e","b","o","o","k">>
IN_lay_low == <<"l","a","y"," ","l","o","w">>
IN_home == <<"g","o"," ","h","o","m","e">>
IN_home_raw == <<"G","o"," ","H","o","m","e">>
IN_school == <<"g","o"," ","t","o"," ","s","c","h","o","o","l">>
IN_hq == <<"g","o"," ","t","o"," ","t","a","s","k"," ","f","o","r","c","e"," ","h","q">>
IN_downtown == <<"g","o"," ","d","o","w","n","t","o","w","n">>
IN_befriend == <<"b","e","f","r","i","e","n","d"," ","s","e","c","o","n","d"," ","k","i","r","a">>
IN_help == <<"h","e","l","p">>
IN_other == <<"w","a","i","t">>

IN_write_school == <<"w","r","i","t","e"," ","a"," ","n","a","m","e"," ","a","n","d"," ","g","o"," ","t","o"," ","s","c","h","o","o","l">>
IN_write_hq == <<"w","r","i","t","e"," ","t","h","e"," ","n","a","m","e"," ","a","t"," ","t","a","s","k"," ","f","o","r","c","e"," ","h","q">>
IN_write_downtown == <<"g","o"," ","o","u","t"," ","a","n","d"," ","w","r","i","t","e"," ","h","i","s"," ","n","a","m","e">>

IN_investigate == <<"i","n","v","e","s","t","i","g","a","t","e"," ","l">>
IN_find_name == <<"f","i","n","d"," ","l","'","s"," ","n","a","m","e">>
IN_discover_name == <<"d","i","s","c","o","v","e","r"," ","l","'","s"," ","n","a","m","e">>

\* Spec: one text for each branch of run_step, and the texts that meet two rules.
SessionInputs ==
    { IN_status, IN_status_raw, IN_look, IN_write, IN_write_move, IN_watch, IN_alibi,
      IN_cooperate, IN_help_inv, IN_hide, IN_lay_low, IN_home, IN_home_raw, IN_school,
      IN_hq, IN_downtown, IN_investigate, IN_befriend, IN_find_name, IN_discover_name,
      IN_help, IN_other }

\* SpecLong: a reduced alphabet, enough to win by lying low, to be caught at
\* headquarters and to try for the name too soon.
LongInputs == { IN_lay_low, IN_hq, IN_downtown, IN_investigate, IN_find_name }

\* SpecConc: requests that return without acting, one that acts, and the way to be
\* caught at headquarters.
ConcInputs == { IN_look, IN_help, IN_lay_low, IN_hq, IN_investigate }

\* Every text the model gives to run_step.
Inputs ==
    SessionInputs \cup INVESTIGATE_L_PHRASES \cup DISCOVER_NAME_PHRASES
        \cup { IN_write_school, IN_write_hq, IN_write_downtown }

\* SpecAny: the values of a game in progress that the rules compare with.
SampleTurns == {5, 6, 9, 10}
SampleSuspicionL == {0, 20, 40, 41, 49, 50, 70, 71, 88, 99, 100}
SampleSuspicionTaskForce == {0, 10, 40, 41, 100}

\* ------------------------------------------------------------ text helpers

UPPERCASE == <<"A","B","C","D","E","F","G","H","I","J","K","L","M",
               "N","O","P","Q","R","S","T","U","V","W","X","Y","Z">>
LOWERCASE == <<"a","b","c","d","e","f","g","h","i","j","k","l","m",
               "n","o","p","q","r","s","t","u","v","w","x","y","z">>

\* str.lower() on one character.
LowerChar(c) ==
    IF \E i \in 1..Len(UPPERCASE) : UPPERCASE[i] = c
    THEN LOWERCASE[CHOOSE i \in 1..Len(UPPERCASE) : UPPERCASE[i] = c]
    ELSE c

\* str.lower()
lower(text) == [i \in 1..Len(text) |-> LowerChar(text[i])]

\* str.strip(): leading and trailing blanks removed.
RECURSIVE lstrip(_)
lstrip(text) ==
    IF Len(text) > 0 /\ text[1] = " " THEN lstrip(Tail(text)) ELSE text

RECURSIVE rstrip(_)
rstrip(text) ==
    IF Len(text) > 0 /\ text[Len(text)] = " "
    THEN rstrip(SubSeq(text, 1, Len(text) - 1))
    ELSE text

strip(text) == rstrip(lstrip(text))

\* Python's `phrase in text` on strings.
Contains(text, phrase) ==
    \E i \in 1..(Len(text) - Len(phrase) + 1) :
        SubSeq(text, i, i + Len(phrase) - 1) = phrase

\* any(phrase in text for phrase in phrases)
AnyIn(phrases, text) == \E p \in phrases : Contains(text, p)

\* ------------------------------------------------------------- classifier

\* Mutant of Classify: the movement rules are tried before the write-name rule.
ClassifyMovementFirst(text) ==
    IF text = W_status THEN "status"
    ELSE IF text \in LOOK_AROUND_TEXTS THEN "look_around"
    ELSE IF AnyIn(MOVE_HOME_PHRASES, text) THEN "move_home"
    ELSE IF AnyIn(MOVE_SCHOOL_PHRASES, text) THEN "move_school"
    ELSE IF AnyIn(MOVE_HQ_PHRASES, text) THEN "move_task_force_hq"
    ELSE IF AnyIn(MOVE_DOWNTOWN_PHRASES, text) THEN "move_downtown"
    ELSE IF Contains(text, W_write) /\ Contains(text, W_name) THEN "write_name"
    ELSE IF AnyIn(WATCH_TV_PHRASES, text) THEN "watch_tv"
    ELSE IF AnyIn(ALIBI_KEYWORDS, text) THEN "alibi"
    ELSE IF Contains(text, W_cooperate)
            \/ (Contains(text, W_help) /\ Contains(text, W_investigation))
         THEN "cooperate"
    ELSE IF AnyIn(HIDE_PHRASES, text) THEN "hide_notebook"
    ELSE IF AnyIn(LAY_LOW_PHRASES, text) THEN "lay_low"
    ELSE IF AnyIn(INVESTIGATE_L_PHRASES, text) THEN "investigate_L"
    ELSE IF AnyIn(BEFRIEND_PHRASES, text) THEN "befriend_second_kira"
    ELSE IF AnyIn(DISCOVER_NAME_PHRASES, text) THEN "discover_L_name"
    ELSE IF text = W_help THEN "help"
    ELSE "other"

\* The if/elif chain of run_step on `text`, in the order of the code.
Classify(text) ==
    IF text = W_status THEN "status"
    ELSE IF text \in LOOK_AROUND_TEXTS THEN "look_around"
    ELSE IF Contains(text, W_write) /\ Contains(text, W_name) THEN "write_name"
    ELSE IF AnyIn(WATCH_TV_PHRASES, text) THEN "watch_tv"
    ELSE IF AnyIn(ALIBI_KEYWORDS, text) THEN "alibi"
    ELSE IF Contains(text, W_cooperate)
            \/ (Contains(text, W_help) /\ Contains(text, W_investigation))
         THEN "cooperate"
    ELSE IF AnyIn(HIDE_PHRASES, text) THEN "hide_notebook"
    ELSE IF AnyIn(LAY_LOW_PHRASES, text) THEN "lay_low"
    ELSE IF AnyIn(MOVE_HOME_PHRASES, text) THEN "move_home"
    ELSE IF AnyIn(MOVE_SCHOOL_PHRASES, text) THEN "move_school"
    ELSE IF AnyIn(MOVE_HQ_PHRASES, text) THEN "move_task_force_hq"
    ELSE IF AnyIn(MOVE_DOWNTOWN_PHRASES, text) THEN "move_downtown"
    ELSE IF AnyIn(INVESTIGATE_L_PHRASES, text) THEN "investigate_L"
    ELSE IF AnyIn(BEFRIEND_PHRASES, text) THEN "befriend_second_kira"
    ELSE IF AnyIn(DISCOVER_NAME_PHRASES, text) THEN "discover_L_name"
    ELSE IF text = W_help THEN "help"
    ELSE "other"

\* text = user_input.lower().strip(), computed once per input.
TextOf == [user_input \in Inputs |-> strip(lower(user_input))]

\* The branch the chain sends each input to.
BranchOf == [user_input \in Inputs |-> Classify(TextOf[user_input])]

\* ------------------------------------------------------------ state helpers

\* Mutant of clamp: the upper limit is not applied.
clamp_without_upper_limit(x) == IF x > 0 THEN x ELSE 0

\* _clamp(x, lo=0, hi=100)
clamp(x) ==
    LET m == IF x < 100 THEN x ELSE 100 IN IF m > 0 THEN m ELSE 0

\* min(3, l_investigation_progress + 1)
ProgressPlusOne(p) == IF p + 1 < 3 THEN p + 1 ELSE 3

EmptyDict == [k \in {} |-> FALSE]

\* d[k] = v
Put(d, k, v) == [x \in DOMAIN d \cup {k} |-> IF x = k THEN v ELSE d[x]]

\* state.flags.get(k, False)
FlagGet(f, k) == IF k \in DOMAIN f THEN f[k] ELSE FALSE

\* The GameState object the global game_state names.
State ==
    [ turn |-> turn, location |-> location, suspicion_L |-> suspicion_L,
      suspicion_task_force |-> suspicion_task_force,
      suspicion_public |-> suspicion_public, notebook_hidden |-> notebook_hidden,
      l_investigation_progress |-> l_investigation_progress, flags |-> flags,
      history |-> history, attrs |-> attrs ]

\* GameState(): the dataclass defaults.  cameras_at_home and
\* cameras_revealed_to_player are no fields of the dataclass.
GameState ==
    [ turn |-> 0, location |-> "intro", suspicion_L |-> 20,
      suspicion_task_force |-> 10, suspicion_public |-> 0, notebook_hidden |-> TRUE,
      l_investigation_progress |-> 0, flags |-> EmptyDict, history |-> << >>,
      attrs |-> EmptyDict ]

\* Reading state.<a> raises AttributeError unless the attribute exists.
HasAttr(s, a) == a \in DOMAIN s.attrs

\* ------------------------------------------------- how a call of run_step ends

\* state.history.append({"system": system_output}); return state, system_output
Return(s, label, ev, out, narr) ==
    [ s |-> [s EXCEPT !.history = Append(@, "system")], action_label |-> label,
      event_messages |-> ev, system_output |-> out, narration |-> narr,
      outcome |-> "returned" ]

\* Mutant of Raise: the object is put back as it was when the call began.
RaiseRollsBack(s, label, ev, narr, exc) ==
    [ s |-> State, action_label |-> label, event_messages |-> ev,
      system_output |-> "none", narration |-> narr, outcome |-> exc ]

\* An exception leaves run_step: the object keeps what was assigned so far.
Raise(s, label, ev, narr, exc) ==
    [ s |-> s, action_label |-> label, event_messages |-> ev,
      system_output |-> "none", narration |-> narr, outcome |-> exc ]

\* A text built with _suspicion_summary(state), which reads
\* state.cameras_revealed_to_player, then appended and returned.
ReturnSummary(s, label, ev, out) ==
    IF HasAttr(s, "cameras_revealed_to_player")
    THEN Return(s, label, ev, out, "not_requested")
    ELSE Raise(s, label, ev, "not_requested", "AttributeError")

\* The state of an action branch when it ends: the object, the locals, and whether
\* an exception left the branch.
Branch(s, label, ev, consume, raised) ==
    [ s |-> s, label |-> label, ev |-> ev, consume |-> consume, raised |-> raised ]

\* ------------------------------------------------------------ action branches

\* Mutant of maybe_grant_tv_target: the draw is made whatever the flag is.
maybe_grant_tv_target_without_test(s, ev, r) ==
    IF r < TV_GRANT_THRESHOLD
    THEN [ s |-> [s EXCEPT !.flags = Put(@, TV_TARGET_FLAG, TRUE)],
           ev |-> Append(ev, "tv_target_seen") ]
    ELSE [s |-> s, ev |-> ev]

\* _maybe_grant_tv_target(state, event_messages), r the random.random() sample.
\* The name picked by random.choice only changes the message's text.
maybe_grant_tv_target(s, ev, r) ==
    IF FlagGet(s.flags, TV_TARGET_FLAG)
    THEN [s |-> s, ev |-> ev]
    ELSE IF r < TV_GRANT_THRESHOLD
         THEN [ s |-> [s EXCEPT !.flags = Put(@, TV_TARGET_FLAG, TRUE)],
                ev |-> Append(ev, "tv_target_seen") ]
         ELSE [s |-> s, ev |-> ev]

\* Mutant of WriteName: the kill branch is taken whatever tv_target_ready is.
WriteNameWithoutFlagTest(s) ==
    Branch([s EXCEPT !.suspicion_L = clamp(@ + 8),
                     !.suspicion_task_force = clamp(@ + 5)],
           "write_name", << >>, TRUE, FALSE)

\* if "write" in text and "name" in text
WriteName(s) ==
    IF ~FlagGet(s.flags, TV_TARGET_FLAG)
    THEN Branch([s EXCEPT !.suspicion_L = clamp(@ + 1)],
                "write_name_without_tv", <<"no_tv_target">>, FALSE, FALSE)
    ELSE LET s1 == [s EXCEPT !.suspicion_L = clamp(@ + 8),
                             !.suspicion_task_force = clamp(@ + 5)]
         IN  IF s1.location # "home"
             THEN Branch(s1, "write_name", << >>, TRUE, FALSE)
             ELSE IF ~HasAttr(s1, "cameras_at_home")
                  THEN Branch(s1, "write_name", << >>, TRUE, TRUE)
                  ELSE IF s1.attrs["cameras_at_home"]
                       THEN Branch([s1 EXCEPT !.suspicion_L = clamp(@ + 10),
                                              !.suspicion_task_force = clamp(@ + 10)],
                                   "write_name", << >>, TRUE, FALSE)
                       ELSE Branch(s1, "write_name", << >>, TRUE, FALSE)

WatchTv(s) ==
    Branch([s EXCEPT !.flags = Put(@, TV_TARGET_FLAG, TRUE),
                     !.suspicion_L = clamp(@ + 1),
                     !.suspicion_task_force = clamp(@ + 1)],
           "watch_tv", << >>, FALSE, FALSE)

Alibi(s) ==
    Branch([s EXCEPT !.suspicion_task_force = clamp(@ - 6),
                     !.suspicion_L = clamp(@ + 2)],
           "alibi", << >>, FALSE, FALSE)

\* Mutant of Cooperate: the deltas of the alibi branch are applied.
CooperateWithAlibiDeltas(s) ==
    Branch([s EXCEPT !.suspicion_task_force = clamp(@ - 6),
                     !.suspicion_L = clamp(@ + 2)],
           "cooperate", << >>, FALSE, FALSE)

Cooperate(s) ==
    Branch([s EXCEPT !.suspicion_task_force = clamp(@ - 4),
                     !.suspicion_L = clamp(@ + 3)],
           "cooperate", << >>, FALSE, FALSE)

HideNotebook(s) ==
    Branch([s EXCEPT !.notebook_hidden = TRUE, !.suspicion_L = clamp(@ + 1)],
           "hide_notebook", << >>, FALSE, FALSE)

LayLow(s) ==
    Branch([s EXCEPT !.suspicion_L = clamp(@ - 2),
                     !.suspicion_task_force = clamp(@ - 1)],
           "lay_low", << >>, FALSE, FALSE)

\* The four movement branches: destination, deltas, then the TV-target roll.
Move(s, label, r) ==
    LET s1 ==
            IF label = "move_home"
            THEN [s EXCEPT !.location = "home", !.suspicion_L = clamp(@ - 1),
                           !.suspicion_task_force = clamp(@ - 1)]
            ELSE IF label = "move_school"
            THEN [s EXCEPT !.location = "school",
                           !.suspicion_task_force = clamp(@ - 1)]
            ELSE IF label = "move_task_force_hq"
            THEN [s EXCEPT !.location = "task_force_hq",
                           !.suspicion_task_force = clamp(@ - 2),
                           !.suspicion_L = clamp(@ + 2)]
            ELSE [s EXCEPT !.location = "downtown"]
        g == maybe_grant_tv_target(s1, << >>, r)
    IN  Branch(g.s, label, g.ev, FALSE, FALSE)

\* Mutant of InvestigateL: the location is not tested, the draw is made anywhere.
InvestigateLAnywhere(s, r) ==
    IF r < INVESTIGATE_FAIL_THRESHOLD
    THEN Branch([s EXCEPT !.suspicion_L = clamp(@ + 30)],
                "investigate_L", <<"investigation_backfires">>, FALSE, FALSE)
    ELSE Branch([s EXCEPT !.l_investigation_progress = ProgressPlusOne(@),
                          !.suspicion_L = clamp(@ + 5),
                          !.suspicion_task_force = clamp(@ + 3),
                          !.flags = Put(@, SECOND_KIRA_REVEALED_FLAG, TRUE)],
                "investigate_L", << >>, FALSE, FALSE)

\* Mutant of InvestigateL: the task force's suspicion rises before the draw, so on
\* a failure as well.
InvestigateLTaskForceNotices(s, r) ==
    IF s.location # "task_force_hq"
    THEN Branch(s, "investigate_L", <<"need_to_be_at_hq">>, FALSE, FALSE)
    ELSE LET s1 == [s EXCEPT !.suspicion_task_force = clamp(@ + 3)]
         IN  IF r < INVESTIGATE_FAIL_THRESHOLD
             THEN Branch([s1 EXCEPT !.suspicion_L = clamp(@ + 30)],
                         "investigate_L", <<"investigation_backfires">>, FALSE, FALSE)
             ELSE Branch([s1 EXCEPT
                             !.l_investigation_progress = ProgressPlusOne(@),
                             !.suspicion_L = clamp(@ + 5),
                             !.flags = Put(@, SECOND_KIRA_REVEALED_FLAG, TRUE)],
                         "investigate_L",
                         IF FlagGet(s.flags, SECOND_KIRA_REVEALED_FLAG)
                         THEN << >> ELSE <<"second_kira_revealed">>,
                         FALSE, FALSE)

\* Mutant of InvestigateL: every success emits the reveal, the flag is not tested.
InvestigateLRevealsEachTime(s, r) ==
    IF s.location # "task_force_hq"
    THEN Branch(s, "investigate_L", <<"need_to_be_at_hq">>, FALSE, FALSE)
    ELSE IF r < INVESTIGATE_FAIL_THRESHOLD
         THEN Branch([s EXCEPT !.suspicion_L = clamp(@ + 30)],
                     "investigate_L", <<"investigation_backfires">>, FALSE, FALSE)
         ELSE Branch([s EXCEPT
                         !.l_investigation_progress = ProgressPlusOne(@),
                         !.suspicion_L = clamp(@ + 5),
                         !.suspicion_task_force = clamp(@ + 3),
                         !.flags = Put(@, SECOND_KIRA_REVEALED_FLAG, TRUE)],
                     "investigate_L", <<"second_kira_revealed">>, FALSE, FALSE)

\* investigate_L, r the random.random() sample drawn at headquarters.
InvestigateL(s, r) ==
    IF s.location # "task_force_hq"
    THEN Branch(s, "investigate_L", <<"need_to_be_at_hq">>, FALSE, FALSE)
    ELSE IF r < INVESTIGATE_FAIL_THRESHOLD
         THEN Branch([s EXCEPT !.suspicion_L = clamp(@ + 30)],
                     "investigate_L", <<"investigation_backfires">>, FALSE, FALSE)
         ELSE LET s1 == [s EXCEPT
                            !.l_investigation_progress = ProgressPlusOne(@),
                            !.suspicion_L = clamp(@ + 5),
                            !.suspicion_task_force = clamp(@ + 3)]
              IN  IF ~FlagGet(s1.flags, SECOND_KIRA_REVEALED_FLAG)
                  THEN Branch([s1 EXCEPT
                                  !.flags = Put(@, SECOND_KIRA_REVEALED_FLAG, TRUE)],
                              "investigate_L", <<"second_kira_revealed">>, FALSE, FALSE)
                  ELSE Branch(s1, "investigate_L", << >>, FALSE, FALSE)

\* Mutant of BefriendSecondKira: second_kira_revealed is not tested.
BefriendSecondKiraUnrevealed(s) ==
    IF FlagGet(s.flags, SECOND_KIRA_FRIEND_FLAG)
    THEN Branch(s, "befriend_second_kira", <<"alliance_in_place">>, FALSE, FALSE)
    ELSE Branch([s EXCEPT
                    !.flags = Put(@, SECOND_KIRA_FRIEND_FLAG, TRUE),
                    !.l_investigation_progress = ProgressPlusOne(@),
                    !.suspicion_L = clamp(@ + 4),
                    !.suspicion_task_force = clamp(@ + 2)],
                "befriend_second_kira", <<"alliance_formed">>, FALSE, FALSE)

\* Mutant of BefriendSecondKira: second_kira_friend is not tested, every repeat
\* grants again.
BefriendSecondKiraEachTime(s) ==
    IF ~FlagGet(s.flags, SECOND_KIRA_REVEALED_FLAG)
    THEN Branch(s, "befriend_second_kira", <<"only_rumors">>, FALSE, FALSE)
    ELSE Branch([s EXCEPT
                    !.flags = Put(@, SECOND_KIRA_FRIEND_FLAG, TRUE),
                    !.l_investigation_progress = ProgressPlusOne(@),
                    !.suspicion_L = clamp(@ + 4),
                    !.suspicion_task_force = clamp(@ + 2)],
                "befriend_second_kira", <<"alliance_formed">>, FALSE, FALSE)

BefriendSecondKira(s) ==
    IF ~FlagGet(s.flags, SECOND_KIRA_REVEALED_FLAG)
    THEN Branch(s, "befriend_second_kira", <<"only_rumors">>, FALSE, FALSE)
    ELSE IF FlagGet(s.flags, SECOND_KIRA_FRIEND_FLAG)
         THEN Branch(s, "befriend_second_kira", <<"alliance_in_place">>, FALSE, FALSE)
         ELSE Branch([s EXCEPT
                         !.flags = Put(@, SECOND_KIRA_FRIEND_FLAG, TRUE),
                         !.l_investigation_progress = ProgressPlusOne(@),
                         !.suspicion_L = clamp(@ + 4),
                         !.suspicion_task_force = clamp(@ + 2)],
                     "befriend_second_kira", <<"alliance_formed">>, FALSE, FALSE)

Other(s) ==
    Branch([s EXCEPT !.suspicion_L = clamp(@ + 1)], "other", << >>, FALSE, FALSE)

\* Mutant of DiscoverLName: suspicion_L is not tested.
DiscoverLNameWithoutSuspicionTest(s) ==
    IF /\ s.l_investigation_progress >= 3
       /\ s.turn >= 6
    THEN ReturnSummary([s EXCEPT !.flags = Put(@, L_NAME_KNOWN_FLAG, TRUE),
                                 !.location = "victory"],
                       "discover_L_name", << >>, "name_discovered")
    ELSE ReturnSummary([s EXCEPT !.suspicion_L = clamp(@ + 12),
                                 !.suspicion_task_force = clamp(@ + 8)],
                       "discover_L_name", << >>, "reached_too_far")

\* discover_L_name: both outcomes return from inside the branch.
DiscoverLName(s) ==
    IF /\ s.l_investigation_progress >= 3
       /\ s.turn >= 6
       /\ s.suspicion_L <= 70
    THEN ReturnSummary([s EXCEPT !.flags = Put(@, L_NAME_KNOWN_FLAG, TRUE),
                                 !.location = "victory"],
                       "discover_L_name", << >>, "name_discovered")
    ELSE ReturnSummary([s EXCEPT !.suspicion_L = clamp(@ + 12),
                                 !.suspicion_task_force = clamp(@ + 8)],
                       "discover_L_name", << >>, "reached_too_far")

\* The branch the classifier chose, for the branches that go on to the checks.
ActionBranch(s, branch, r) ==
    IF branch = "write_name" THEN WriteName(s)
    ELSE IF branch = "watch_tv" THEN WatchTv(s)
    ELSE IF branch = "alibi" THEN Alibi(s)
    ELSE IF branch = "cooperate" THEN Cooperate(s)
    ELSE IF branch = "hide_notebook" THEN HideNotebook(s)
    ELSE IF branch = "lay_low" THEN LayLow(s)
    ELSE IF branch \in {"move_home", "move_school", "move_task_force_hq", "move_downtown"}
         THEN Move(s, branch, r)
    ELSE IF branch = "investigate_L" THEN InvestigateL(s, r)
    ELSE IF branch = "befriend_second_kira" THEN BefriendSecondKira(s)
    ELSE Other(s)

\* Location-based event: cameras at home.
CameraCheck(b) ==
    IF b.raised \/ ~(b.s.location = "home" /\ b.s.suspicion_L >= 50)
    THEN b
    ELSE IF ~HasAttr(b.s, "cameras_at_home")
         THEN [b EXCEPT !.raised = TRUE]
         ELSE IF b.s.attrs["cameras_at_home"]
              THEN b
              ELSE [b EXCEPT
                       !.s.attrs = Put(Put(@, "cameras_at_home", TRUE),
                                       "cameras_revealed_to_player", TRUE),
                       !.ev = Append(@, "cameras_installed")]

\* generate_narration and what follows it; api_ok is whether the chat completion
\* request succeeds.  _state_to_text reads state.cameras_at_home before the request.
generate_narration(b, api_ok) ==
    IF ~HasAttr(b.s, "cameras_at_home")
    THEN Raise(b.s, b.label, b.ev, "digest_failed", "AttributeError")
    ELSE IF ~api_ok
         THEN Raise(b.s, b.label, b.ev, "request_failed", "APIError")
         ELSE Return(IF b.consume
                     THEN [b.s EXCEPT !.flags = Put(@, TV_TARGET_FLAG, FALSE)]
                     ELSE b.s,
                     b.label, b.ev, "narration", "produced")

\* Mutant of WinLoseChecks: neither check returns, the turn goes on to narration with
\* the terminal location set.
WinLoseChecksWithoutReturn(b, api_ok) ==
    IF b.raised
    THEN Raise(b.s, b.label, b.ev, "not_requested", "AttributeError")
    ELSE IF /\ b.s.suspicion_L <= 40
            /\ b.s.suspicion_task_force <= 40
            /\ b.s.turn >= 10
         THEN generate_narration([b EXCEPT !.s.location = "victory"], api_ok)
         ELSE IF b.s.suspicion_L >= 100 \/ b.s.suspicion_task_force >= 100
              THEN generate_narration([b EXCEPT !.s.location = "caught"], api_ok)
              ELSE generate_narration(b, api_ok)

\* Win / lose checks, then narration.
WinLoseChecks(b, api_ok) ==
    IF b.raised
    THEN Raise(b.s, b.label, b.ev, "not_requested", "AttributeError")
    ELSE IF /\ b.s.suspicion_L <= 40
            /\ b.s.suspicion_task_force <= 40
            /\ b.s.turn >= 10
         THEN ReturnSummary([b.s EXCEPT !.location = "victory"], b.label, b.ev,
                            "new_world")
         ELSE IF b.s.suspicion_L >= 100 \/ b.s.suspicion_task_force >= 100
              THEN ReturnSummary([b.s EXCEPT !.location = "caught"], b.label, b.ev,
                                 "exposed")
              ELSE generate_narration(b, api_ok)

\* Mutant of TerminalLocations: the guard for "caught" is missing.
TerminalLocationsWithoutCaught == {"victory"}

\* The locations whose guard at the top of run_step returns at once.
TerminalLocations == {"caught", "victory"}

\* Mutant of run_step_branch: help is no short-circuit, it goes on as the default
\* action does.
run_step_branch_help_as_action(s, branch, r, api_ok) ==
    LET s0 == [s EXCEPT !.turn = @ + 1, !.history = Append(@, "user")]
    IN  IF s0.location \in TerminalLocations
        THEN Return(s0, "other", << >>,
                    IF s0.location = "caught" THEN "already_exposed" ELSE "already_won",
                    "not_requested")
        ELSE IF s0.location = "intro"
        THEN Return([s0 EXCEPT !.location = "home"], "other", << >>, "welcome",
                    "not_requested")
        ELSE IF branch = "status"
        THEN ReturnSummary(s0, "other", << >>, "status")
        ELSE IF branch = "look_around"
        THEN Return(s0, "look_around", << >>, "look_around", "not_requested")
        ELSE IF branch = "discover_L_name"
        THEN DiscoverLName(s0)
        ELSE WinLoseChecks(CameraCheck(ActionBranch(s0, branch, r)), api_ok)

\* run_step on a text that the if/elif chain sends to `branch`: r is the sample
\* random.random() returns if the call draws one, api_ok whether the narration request
\* succeeds if one is made.
run_step_branch(s, branch, r, api_ok) ==
    LET s0 == [s EXCEPT !.turn = @ + 1, !.history = Append(@, "user")]
    IN  IF s0.location \in TerminalLocations
        THEN Return(s0, "other", << >>,
                    IF s0.location = "caught" THEN "already_exposed" ELSE "already_won",
                    "not_requested")
        ELSE IF s0.location = "intro"
        THEN Return([s0 EXCEPT !.location = "home"], "other", << >>, "welcome",
                    "not_requested")
        ELSE IF branch = "status"
        THEN ReturnSummary(s0, "other", << >>, "status")
        ELSE IF branch = "look_around"
        THEN Return(s0, "look_around", << >>, "look_around", "not_requested")
        ELSE IF branch = "discover_L_name"
        THEN DiscoverLName(s0)
        ELSE IF branch = "help"
        THEN Return(s0, "other", << >>, "help", "not_requested")
        ELSE WinLoseChecks(CameraCheck(ActionBranch(s0, branch, r)), api_ok)

\* run_step(state, user_input)
run_step(s, user_input, r, api_ok) ==
    run_step_branch(s, BranchOf[user_input], r, api_ok)

\* ------------------------------------------------------------------ actions

\* The object and the call's observables after a call that ended as x.
Becomes(x) ==
    /\ turn' = x.s.turn
    /\ location' = x.s.location
    /\ suspicion_L' = x.s.suspicion_L
    /\ suspicion_task_force' = x.s.suspicion_task_force
    /\ suspicion_public' = x.s.suspicion_public
    /\ notebook_hidden' = x.s.notebook_hidden
    /\ l_investigation_progress' = x.s.l_investigation_progress
    /\ flags' = x.s.flags
    /\ history' = x.s.history
    /\ attrs' = x.s.attrs
    /\ action_label' = x.action_label
    /\ event_messages' = x.event_messages
    /\ system_output' = x.system_output
    /\ narration' = x.narration
    /\ outcome' = x.outcome

\* Only the movement and investigate_L branches call random.random().
SamplesFor(branch) ==
    IF branch \in {"move_home", "move_school", "move_task_force_hq", "move_downtown",
                   "investigate_L"}
    THEN RandomSamples
    ELSE {0}

\* The chat completion request is made only once _state_to_text has built the digest.
ApiOutcomes(s) == IF HasAttr(s, "cameras_at_home") THEN BOOLEAN ELSE {TRUE}

\* app.step with user_input: one request served to its end.  run_step changes the
\* object in place, so what it assigned stays in game_state also when it raises.
Call(user_input) ==
    /\ \E r \in SamplesFor(BranchOf[user_input]), api_ok \in ApiOutcomes(State) :
           Becomes(run_step(State, user_input, r, api_ok))
    /\ last_text' = TextOf[user_input]
    /\ UNCHANGED in_flight

\* The same request, told by the branch its text is sent to.
CallBranch(branch) ==
    /\ \E r \in SamplesFor(branch), api_ok \in ApiOutcomes(State) :
           Becomes(run_step_branch(State, branch, r, api_ok))
    /\ \E user_input \in Inputs :
           BranchOf[user_input] = branch /\ last_text' = TextOf[user_input]
    /\ UNCHANGED in_flight

\* The branches the texts of a set are sent to.
BranchesOf(texts) == { BranchOf[p] : p \in texts }

\* A session of at most MaxTurn requests, any of the session's texts each time.
Step ==
    /\ turn < MaxTurn
    /\ \E user_input \in SessionInputs : Call(user_input)

\* A long session over the reduced alphabet.
StepLong ==
    /\ turn < MaxTurnLong
    /\ \E user_input \in LongInputs : Call(user_input)

\* One request on a sampled state, any text.
StepAny ==
    /\ outcome = "none"
    /\ \E user_input \in Inputs : Call(user_input)

\* Mutant of Fresh: the new object shares the flags dict and the history list of the
\* object it replaces.
FreshSharingFlagsAndHistory ==
    [ s |-> [GameState EXCEPT !.flags = flags, !.history = history],
      action_label |-> "none", event_messages |-> << >>,
      system_output |-> "state_reset", narration |-> "not_requested",
      outcome |-> "none" ]

\* What a reset leaves: GameState(), no call of run_step made on it yet, and the
\* "State reset." message as the response.
Fresh ==
    [ s |-> GameState, action_label |-> "none", event_messages |-> << >>,
      system_output |-> "state_reset", narration |-> "not_requested",
      outcome |-> "none" ]

\* What the requests in flight hold once game_state names another object: a request
\* that held the object game_state named keeps that object, as it is now.
Detached ==
    [ i \in 1..Len(in_flight) |->
        IF in_flight[i].shared
        THEN [in_flight[i] EXCEPT !.shared = FALSE, !.object = State]
        ELSE in_flight[i] ]

\* app.reset: game_state = GameState()
Reset ==
    /\ \E x \in {Fresh} : Becomes(x)
    /\ last_text' = << >>
    /\ in_flight' = Detached

\* app.step up to the call: the arguments of run_step are evaluated, the request
\* now holds the object game_state names.  One request in flight at a time.
StepLoad(user_input) ==
    /\ in_flight = << >>
    /\ turn < MaxTurnConc
    /\ in_flight' = << [ user_input |-> user_input, phase |-> "loaded",
                         shared |-> TRUE, object |-> GameState ] >>
    /\ UNCHANGED << turn, location, suspicion_L, suspicion_task_force,
                    suspicion_public, notebook_hidden, l_investigation_progress,
                    flags, history, attrs, last_text, action_label, event_messages,
                    system_output, narration, outcome >>

\* The request's call of run_step, on the object the request holds.  The object is
\* changed in place: game_state shows it only while it still names that object.  A
\* call that raises ends the request with nothing assigned to game_state.
StepRun ==
    /\ in_flight # << >>
    /\ in_flight[1].phase = "loaded"
    /\ LET q == in_flight[1]
           held == IF q.shared THEN State ELSE q.object
       IN  \E r \in SamplesFor(BranchOf[q.user_input]), api_ok \in ApiOutcomes(held) :
               LET x == run_step(held, q.user_input, r, api_ok)
               IN  /\ IF q.shared
                      THEN Becomes(x)
                      ELSE /\ action_label' = x.action_label
                           /\ event_messages' = x.event_messages
                           /\ system_output' = x.system_output
                           /\ narration' = x.narration
                           /\ outcome' = x.outcome
                           /\ UNCHANGED << turn, location, suspicion_L,
                                           suspicion_task_force, suspicion_public,
                                           notebook_hidden, l_investigation_progress,
                                           flags, history, attrs >>
                   /\ last_text' = TextOf[q.user_input]
                   /\ in_flight' =
                          IF x.outcome = "returned"
                          THEN << [q EXCEPT !.phase = "ran",
                                            !.object = IF q.shared THEN GameState
                                                                   ELSE x.s] >>
                          ELSE << >>

\* The assignment that ends app.step: game_state names the object run_step returned,
\* which is the object the request held.
StepStore ==
    /\ in_flight # << >>
    /\ in_flight[1].phase = "ran"
    /\ LET q == in_flight[1]
           held == IF q.shared THEN State ELSE q.object
       IN  /\ turn' = held.turn
           /\ location' = held.location
           /\ suspicion_L' = held.suspicion_L
           /\ suspicion_task_force' = held.suspicion_task_force
           /\ suspicion_public' = held.suspicion_public
           /\ notebook_hidden' = held.notebook_hidden
           /\ l_investigation_progress' = held.l_investigation_progress
           /\ flags' = held.flags
           /\ history' = held.history
           /\ attrs' = held.attrs
    /\ in_flight' = << >>
    /\ UNCHANGED << last_text, action_label, event_messages, system_output,
                    narration, outcome >>

\* The server thread of an app.step request, one step of it.
StepConc ==
    \/ \E user_input \in ConcInputs : StepLoad(user_input)
    \/ StepRun
    \/ StepStore

Init ==
    /\ turn = GameState.turn
    /\ location = GameState.location
    /\ suspicion_L = GameState.suspicion_L
    /\ suspicion_task_force = GameState.suspicion_task_force
    /\ suspicion_public = GameState.suspicion_public
    /\ notebook_hidden = GameState.notebook_hidden
    /\ l_investigation_progress = GameState.l_investigation_progress
    /\ flags = GameState.flags
    /\ history = GameState.history
    /\ attrs = GameState.attrs
    /\ last_text = << >>
    /\ action_label = "none"
    /\ event_messages = << >>
    /\ system_output = "none"
    /\ narration = "not_requested"
    /\ outcome = "none"
    /\ in_flight = << >>

\* The flags a session can hold with progress p: a successful investigation sets
\* second_kira_revealed with the first point, befriending needs it and adds a point.
SampleFlags(p) ==
    LET tv == {EmptyDict, Put(EmptyDict, TV_TARGET_FLAG, TRUE)}
    IN  IF p = 0
        THEN tv
        ELSE { Put(f, SECOND_KIRA_REVEALED_FLAG, TRUE) : f \in tv }
             \cup (IF p >= 2
                   THEN { Put(Put(f, SECOND_KIRA_REVEALED_FLAG, TRUE),
                              SECOND_KIRA_FRIEND_FLAG, TRUE) : f \in tv }
                   ELSE {})

\* A game in progress, sampled at the values the rules compare with: the first
\* request was the intro, and no later request has returned.
InitAny ==
    /\ turn \in SampleTurns
    /\ location \in {"home", "school", "task_force_hq", "downtown"}
    /\ suspicion_L \in SampleSuspicionL
    /\ suspicion_task_force \in SampleSuspicionTaskForce
    /\ suspicion_public = GameState.suspicion_public
    /\ notebook_hidden = GameState.notebook_hidden
    /\ l_investigation_progress \in 0..3
    /\ flags \in SampleFlags(l_investigation_progress)
    /\ history = <<"user", "system">> \o [i \in 1..(turn - 1) |-> "user"]
    /\ attrs = GameState.attrs
    /\ last_text = << >>
    /\ action_label = "none"
    /\ event_messages = << >>
    /\ system_output = "none"
    /\ narration = "not_requested"
    /\ outcome = "none"
    /\ in_flight = << >>

Next == Step \/ Reset

NextConc == StepConc \/ Reset

NextLong == StepLong \/ Reset

\* Sessions from a fresh state, every text of SessionInputs.
Spec == Init /\ [][Next]_vars

\* Long sessions from a fresh state, the texts of LongInputs.
SpecLong == Init /\ [][NextLong]_vars

\* run_step as a function: one call on each sampled state, every text of Inputs.
SpecAny == InitAny /\ [][StepAny]_vars

\* The threaded server: a reset may run between the steps of an app.step request.
SpecConc == Init /\ [][NextConc]_vars

TypeOK ==
    /\ turn \in Nat
    /\ location \in {"intro", "home", "school", "task_force_hq", "downtown",
                     "caught", "victory"}
    /\ suspicion_public = 0
    /\ notebook_hidden \in BOOLEAN
    /\ DOMAIN flags \subseteq {TV_TARGET_FLAG, SECOND_KIRA_REVEALED_FLAG,
                                SECOND_KIRA_FRIEND_FLAG, L_NAME_KNOWN_FLAG}
    /\ \A i \in 1..Len(history) : history[i] \in {"user", "system"}
    /\ DOMAIN attrs \subseteq {"cameras_at_home", "cameras_revealed_to_player"}
    /\ last_text \in {<< >>} \cup { TextOf[user_input] : user_input \in Inputs }
    /\ narration \in {"not_requested", "digest_failed", "request_failed", "produced"}
    /\ outcome \in {"none", "returned", "AttributeError", "APIError"}
    /\ Len(in_flight) <= 1
    /\ \A i \in 1..Len(in_flight) :
           /\ in_flight[i].user_input \in Inputs
           /\ in_flight[i].phase \in {"loaded", "ran"}
           /\ in_flight[i].shared \in BOOLEAN

\* ------------------------------------------------------------------ claims

\* The fields of GameState other than turn and history.
Fields ==
    << location, suspicion_L, suspicion_task_force, suspicion_public, notebook_hidden,
       l_investigation_progress, flags, attrs >>

\* The same fields of a GameState record.
FieldsOf(s) ==
    << s.location, s.suspicion_L, s.suspicion_task_force, s.suspicion_public,
       s.notebook_hidden, s.l_investigation_progress, s.flags, s.attrs >>

\* A call of run_step was made in this step.
Called == turn' = turn + 1

\* C1: in every state a session reaches, whatever the texts and the random draws,
\* suspicion_L and suspicion_task_force are in [0,100] and l_investigation_progress
\* is in [0,3].
C1_MetersInRange ==
    /\ suspicion_L \in 0..100
    /\ suspicion_task_force \in 0..100
    /\ l_investigation_progress \in 0..3

\* C1 witness: a call has pushed suspicion_L to the upper limit.
C1_Witness == suspicion_L = 100 /\ outcome # "none"

\* C2: once location is caught or victory, every later call, whatever its text,
\* leaves location, the meters, the progress, notebook_hidden, the camera attributes
\* and the flags as they are; only a reset leaves the terminal state.
C2_TerminalAbsorbing ==
    [][ (location \in {"caught", "victory"})
        => /\ Reset \/ Fields' = Fields
           /\ \A b \in BranchesOf(Inputs) : \A r \in SamplesFor(b) :
                  FieldsOf(run_step_branch(State, b, r, TRUE).s) = Fields ]_vars

\* C2 witness: a call was made after the player was caught.
C2_Witness == location = "caught" /\ system_output = "already_exposed"

\* C3: a call made when location is caught or victory changes nothing of the state,
\* in particular turn is not incremented (history, which records the exchange, aside).
C3_TerminalCallChangesNothing ==
    [][ (location \in {"caught", "victory"})
        => (Reset \/ (turn' = turn /\ Fields' = Fields)) ]_vars

\* C4: whenever a call made in a non-terminal state changes a meter and ends with
\* suspicion_L >= 100 or suspicion_task_force >= 100, location is caught.
C4_LossAfterEveryMutation ==
    [][ ( /\ location \notin {"caught", "victory"}
          /\ Called
          /\ <<suspicion_L, suspicion_task_force>>' # <<suspicion_L, suspicion_task_force>>
          /\ (suspicion_L' >= 100 \/ suspicion_task_force' >= 100) )
        => location' = "caught" ]_vars

\* C5: in a game in progress with l_investigation_progress = 3, turn = 6 and
\* suspicion_L = 70, each phrase of the discover-name set given as the text ends the
\* call with location = victory and flags.l_name_known = true.
C5_EveryDiscoverPhraseWins ==
    [][ \A b \in BranchesOf(DISCOVER_NAME_PHRASES) :
            ( /\ location \notin {"intro", "caught", "victory"}
              /\ l_investigation_progress = 3
              /\ turn = 6
              /\ suspicion_L = 70
              /\ CallBranch(b) )
            => (location' = "victory" /\ FlagGet(flags', "l_name_known")) ]_vars

\* C6: in a game in progress with tv_target_ready false or absent, a text classified
\* as write_name takes the no-kill branch whatever the rest of the state: suspicion_L
\* rises by exactly 1 (at most to 100), suspicion_task_force and
\* l_investigation_progress keep their values, and tv_target_ready is still false
\* after the turn.
C6_WriteNameWithoutTarget ==
    [][ ( /\ location \notin {"intro", "caught", "victory"}
          /\ ~FlagGet(flags, "tv_target_ready")
          /\ CallBranch("write_name") )
        => /\ action_label' = "write_name_without_tv"
           /\ suspicion_L' = (IF suspicion_L < 100 THEN suspicion_L + 1 ELSE 100)
           /\ suspicion_task_force' = suspicion_task_force
           /\ l_investigation_progress' = l_investigation_progress
           /\ ~FlagGet(flags', "tv_target_ready") ]_vars

\* C6 witness: the no-kill branch was taken with suspicion_L at or next to the limit.
C6_Witness ==
    /\ action_label = "write_name_without_tv"
    /\ suspicion_L = 100
    /\ ~FlagGet(flags, "tv_target_ready")

\* C7 as stated: a call in a game in progress away from task_force_hq whose text is an
\* investigate-L phrase leaves l_investigation_progress and location as they were.
C7_InvestigateAwayKeepsLocation ==
    [][ \A b \in BranchesOf(INVESTIGATE_L_PHRASES) :
            ( /\ location \notin {"intro", "caught", "victory", "task_force_hq"}
              /\ CallBranch(b) )
            => /\ l_investigation_progress' = l_investigation_progress
               /\ location' = location ]_vars

\* C7 as amended: such a call leaves l_investigation_progress as it was, and leaves
\* location as it was unless the turn's win/lose check ends the game: victory with
\* both meters at most 40 from turn 10 on, caught with a meter at 100.
C7_InvestigateAwayKeepsProgress ==
    [][ \A b \in BranchesOf(INVESTIGATE_L_PHRASES) :
            ( /\ location \notin {"intro", "caught", "victory", "task_force_hq"}
              /\ CallBranch(b) )
            => /\ l_investigation_progress' = l_investigation_progress
               /\ \/ location' = location
                  \/ /\ location' = "victory"
                     /\ suspicion_L <= 40 /\ suspicion_task_force <= 40 /\ turn' >= 10
                  \/ /\ location' = "caught"
                     /\ (suspicion_L >= 100 \/ suspicion_task_force >= 100) ]_vars

\* C7 witness: an investigate_L turn away from headquarters ended the game.
C7_Witness ==
    /\ action_label = "investigate_L"
    /\ event_messages = <<"need_to_be_at_hq">>
    /\ l_investigation_progress = 0
    /\ location = "victory"

\* C8: when narration fails on a turn that reaches the narration step, run_step does
\* not fail: it returns a fallback text and appends it to history as the turn's
\* system output.
C8_NarrationFallback ==
    narration \in {"digest_failed", "request_failed"}
        => /\ outcome = "returned"
           /\ system_output # "none"
           /\ history[Len(history)] = "system"

\* The branch that leaves run_step's action_label at `label`.
BranchOfLabel(label) == IF label = "write_name_without_tv" THEN "write_name" ELSE label

\* The object as the action of branch b and the camera event leave it, r drawn.
AfterActionAndEvents(b, r) ==
    CameraCheck(ActionBranch([State EXCEPT !.turn = @ + 1], b, r)).s

\* C9: when narration fails on a turn, the turn, the meters, the location, the
\* progress and the flags are in the session state as the turn's action and events
\* left them.
C9_MutationsKept ==
    [][ narration' \in {"digest_failed", "request_failed"}
        => \E r \in SamplesFor(BranchOfLabel(action_label')) :
              LET after == AfterActionAndEvents(BranchOfLabel(action_label'), r)
              IN  /\ turn' = after.turn
                  /\ location' = after.location
                  /\ suspicion_L' = after.suspicion_L
                  /\ suspicion_task_force' = after.suspicion_task_force
                  /\ l_investigation_progress' = after.l_investigation_progress
                  /\ notebook_hidden' = after.notebook_hidden
                  /\ flags' = after.flags ]_vars

\* C9 witness: narration failed on a turn that moved the player and granted a target.
C9_Witness ==
    /\ narration = "digest_failed"
    /\ action_label = "move_task_force_hq"
    /\ event_messages = <<"tv_target_seen">>
    /\ location = "task_force_hq"
    /\ suspicion_L = 22
    /\ FlagGet(flags, "tv_target_ready")

\* C10: no call of run_step on a state reached from GameState() fails on an
\* undefined field.
C10_NoUndefinedField == outcome # "AttributeError"

C12_CamerasStandingTrap ==
    (outcome # "none" /\ location = "home" /\ suspicion_L >= 50)
        => /\ HasAttr(State, "cameras_at_home")
           /\ HasAttr(State, "cameras_revealed_to_player")
           /\ attrs["cameras_at_home"]
           /\ attrs["cameras_revealed_to_player"]

\* C13: every call made in a non-terminal state increments turn by exactly one, and
\* nothing else changes turn except a reset.
C13_TurnOncePerAcceptedInput ==
    [][ \/ Reset
        \/ IF location \in {"caught", "victory"}
           THEN turn' = turn
           ELSE turn' = turn + 1 ]_vars

\* The texts that hold "write", "name" and a movement phrase.
WriteAndMoveTexts ==
    { TextOf[user_input] : user_input \in
        { u \in Inputs :
            /\ Contains(TextOf[u], W_write)
            /\ Contains(TextOf[u], W_name)
            /\ AnyIn(MOVE_HOME_PHRASES \cup MOVE_SCHOOL_PHRASES \cup MOVE_HQ_PHRASES
                        \cup MOVE_DOWNTOWN_PHRASES, TextOf[u]) } }

\* C14: in a game in progress, a text that holds "write", "name" and a movement phrase
\* is handled as write_name or write_name_without_tv, never as a movement: the action
\* does not change location (only the turn's win/lose check can, to victory or caught)
\* and no TV target is granted.
C14_WriteNameBeforeMovement ==
    [][ ( /\ location \notin {"intro", "caught", "victory"}
          /\ Called
          /\ last_text' \in WriteAndMoveTexts )
        => /\ action_label' \in {"write_name", "write_name_without_tv"}
           /\ \/ location' = location
              \/ /\ location' = "victory"
                 /\ suspicion_L' <= 40 /\ suspicion_task_force' <= 40 /\ turn' >= 10
              \/ /\ location' = "caught"
                 /\ (suspicion_L' >= 100 \/ suspicion_task_force' >= 100)
           /\ \A i \in 1..Len(event_messages') : event_messages'[i] # "tv_target_seen"
           /\ FlagGet(flags', "tv_target_ready") => FlagGet(flags, "tv_target_ready")
      ]_vars

\* C14 witness: "write his name then go home" was handled at school as a kill, and the
\* player is still at school.
C14_Witness ==
    /\ last_text = TextOf[IN_write_move]
    /\ action_label = "write_name"
    /\ location = "school"
    /\ outcome # "none"

\* The branches of the chain that go on to the camera check and the win/lose checks.
ActionBranches ==
    { "write_name", "watch_tv", "alibi", "cooperate", "hide_notebook", "lay_low",
      "move_home", "move_school", "move_task_force_hq", "move_downtown",
      "investigate_L", "befriend_second_kira", "other" }

\* C15: after every call in a game in progress whose text is sent to a branch other
\* than status, help, look_around and discover_L_name, if suspicion_L <= 40 and
\* suspicion_task_force <= 40 and turn >= 10 then location is victory and the call
\* returns without requesting narration.
C15_LowSuspicionWin ==
    [][ ( /\ location \notin {"intro", "caught", "victory"}
          /\ Called
          /\ Classify(last_text') \in ActionBranches
          /\ suspicion_L' <= 40
          /\ suspicion_task_force' <= 40
          /\ turn' >= 10 )
        => /\ location' = "victory"
           /\ narration' = "not_requested"
           /\ outcome' = "returned" ]_vars

\* C16: history is append-only, and every call made in a non-terminal state appends
\* exactly two entries, the player's input and then the turn's system output.
C16_HistoryAppendOnly ==
    [][ \/ Reset
        \/ /\ Len(history') >= Len(history)
           /\ SubSeq(history', 1, Len(history)) = history
           /\ location \notin {"caught", "victory"}
              => history' = history \o <<"user", "system">> ]_vars

\* C17: a reset, from any state, leaves the state of a fresh session: turn 0, location
\* intro, suspicion_L 20, suspicion_task_force 10, l_investigation_progress 0,
\* notebook_hidden true, no flag, empty history, nothing kept of the state before.
C17_ResetYieldsFreshState ==
    [][ ~Called
        => /\ turn' = 0
           /\ location' = "intro"
           /\ suspicion_L' = 20
           /\ suspicion_task_force' = 10
           /\ suspicion_public' = 0
           /\ l_investigation_progress' = 0
           /\ notebook_hidden' = TRUE
           /\ DOMAIN flags' = {}
           /\ history' = << >>
           /\ DOMAIN attrs' = {} ]_vars

\* C17 witness: a reset has answered, and the state is that of a fresh session.
C17_Witness ==
    /\ system_output = "state_reset"
    /\ turn = 0
    /\ location = "intro"
    /\ history = << >>
    /\ DOMAIN flags = {}

\* C18: a discover_L_name turn sets location to victory and l_name_known to true iff,
\* with the turn incremented, l_investigation_progress >= 3, turn >= 6 and
\* suspicion_L <= 70; otherwise it adds 12 to suspicion_L and 8 to suspicion_task_force
\* (at most to 100), leaves location, progress and flags as they were and returns the
\* static failure text; neither outcome requests narration.
C18_DiscoverOutcomes ==
    [][ ( /\ location \notin {"intro", "caught", "victory"}
          /\ CallBranch("discover_L_name") )
        => /\ narration' = "not_requested"
           /\ IF l_investigation_progress >= 3 /\ turn' >= 6 /\ suspicion_L <= 70
              THEN /\ location' = "victory"
                   /\ FlagGet(flags', "l_name_known")
              ELSE /\ suspicion_L' = (IF suspicion_L + 12 < 100
                                      THEN suspicion_L + 12 ELSE 100)
                   /\ suspicion_task_force' = (IF suspicion_task_force + 8 < 100
                                               THEN suspicion_task_force + 8 ELSE 100)
                   /\ location' = location
                   /\ l_investigation_progress' = l_investigation_progress
                   /\ flags' = flags
                   /\ system_output' = "reached_too_far"
                   /\ outcome' = "returned" ]_vars

\* x raised by d, at most to 100.
Raised(x, d) == IF x + d < 100 THEN x + d ELSE 100

\* The object t is what a failed investigation leaves of the object s.
InvestigationFailed(s, t) ==
    /\ t.l_investigation_progress = s.l_investigation_progress
    /\ t.suspicion_task_force = s.suspicion_task_force
    /\ t.suspicion_L = Raised(s.suspicion_L, 30)

\* The object t is what a successful investigation leaves of the object s.
InvestigationSucceeded(s, t) ==
    /\ t.l_investigation_progress =
           (IF s.l_investigation_progress + 1 < 3
            THEN s.l_investigation_progress + 1 ELSE 3)
    /\ t.suspicion_L = Raised(s.suspicion_L, 5)
    /\ t.suspicion_task_force = Raised(s.suspicion_task_force, 3)

\* C19: an investigate_L turn at task_force_hq has two possible outcomes, chosen by
\* the random draw, and no other: a failure, which leaves l_investigation_progress and
\* suspicion_task_force as they were and raises suspicion_L by 30, or a success, which
\* makes the progress min(3, progress + 1) and raises suspicion_L by 5 and
\* suspicion_task_force by 3 (at most to 100).
C19_InvestigateOutcomes ==
    [][ (location = "task_force_hq" /\ CallBranch("investigate_L"))
        => /\ InvestigationFailed(State, State') \/ InvestigationSucceeded(State, State')
           /\ \E r \in RandomSamples :
                  InvestigationFailed(State,
                      run_step_branch(State, "investigate_L", r, TRUE).s)
           /\ \E r \in RandomSamples :
                  InvestigationSucceeded(State,
                      run_step_branch(State, "investigate_L", r, TRUE).s) ]_vars

\* C19 witness: a first successful investigation at headquarters, from the default
\* meters: progress 1, suspicion_L 25, suspicion_task_force 13.
C19_Witness ==
    /\ action_label = "investigate_L"
    /\ location = "task_force_hq"
    /\ l_investigation_progress = 1
    /\ suspicion_L = 25
    /\ suspicion_task_force = 13

\* The reveal message is among the event messages e.
RevealIn(e) == \E i \in 1..Len(e) : e[i] = "second_kira_revealed"

\* C20: second_kira_revealed becomes true only by a successful investigate_L at
\* task_force_hq, and the first one sets it; it is not set back to false before a
\* reset; the reveal message is emitted only on the turn that sets the flag, hence on
\* at most one turn between two resets.
C20_RevealOncePerSession ==
    [][ LET revealed == FlagGet(flags, "second_kira_revealed")
            revealed_after == FlagGet(flags', "second_kira_revealed")
            success == /\ location = "task_force_hq"
                       /\ CallBranch("investigate_L")
                       /\ event_messages' # <<"investigation_backfires">>
        IN  /\ (~revealed /\ revealed_after) => success
            /\ success => revealed_after
            /\ (revealed /\ ~revealed_after) => Reset
            /\ RevealIn(event_messages') => (~revealed /\ revealed_after) ]_vars

\* C20 witness: a second successful investigation, with the flag already set, emitted
\* no reveal.
C20_Witness ==
    /\ action_label = "investigate_L"
    /\ l_investigation_progress = 2
    /\ event_messages = << >>
    /\ FlagGet(flags, "second_kira_revealed")
    /\ outcome # "none"

\* C21: befriend_second_kira changes no meter, progress or flag when
\* second_kira_revealed is false, and none when second_kira_friend is already true;
\* otherwise it sets second_kira_friend, raises l_investigation_progress by 1 (at most
\* to 3) and adds 4 to suspicion_L and 2 to suspicion_task_force (at most to 100).
\* second_kira_friend is cleared by a reset only, so the grant is given at most once
\* per session.
C21_BefriendOnce ==
    [][ /\ ( /\ location \notin {"intro", "caught", "victory"}
             /\ CallBranch("befriend_second_kira") )
           => IF \/ ~FlagGet(flags, "second_kira_revealed")
                 \/ FlagGet(flags, "second_kira_friend")
              THEN /\ suspicion_L' = suspicion_L
                   /\ suspicion_task_force' = suspicion_task_force
                   /\ l_investigation_progress' = l_investigation_progress
                   /\ flags' = flags
              ELSE /\ suspicion_L' = Raised(suspicion_L, 4)
                   /\ suspicion_task_force' = Raised(suspicion_task_force, 2)
                   /\ l_investigation_progress' =
                          (IF l_investigation_progress + 1 < 3
                           THEN l_investigation_progress + 1 ELSE 3)
                   /\ FlagGet(flags', "second_kira_friend")
                   /\ \A k \in DOMAIN flags : k \in DOMAIN flags' /\ flags'[k] = flags[k]
                   /\ DOMAIN flags' = DOMAIN flags \cup {"second_kira_friend"}
        /\ (FlagGet(flags, "second_kira_friend") /\ ~FlagGet(flags', "second_kira_friend"))
           => Reset ]_vars

\* C21 witness: befriending was repeated with the alliance in place, and the progress
\* is the 2 that one investigation and one alliance give.
C21_Witness ==
    /\ action_label = "befriend_second_kira"
    /\ event_messages = <<"alliance_in_place">>
    /\ l_investigation_progress = 2
    /\ FlagGet(flags, "second_kira_friend")

\* The branch the chain sends each text to, computed once per text.
BranchOfText == [t \in { TextOf[user_input] : user_input \in Inputs } |-> Classify(t)]

\* A call of run_step was made in this step, on a text the chain sends to `branch`.
CalledOn(branch) == Called /\ BranchOfText[last_text'] = branch

\* x lowered by d, at least to 0.
Lowered(x, d) == IF x - d > 0 THEN x - d ELSE 0

\* The destination of each movement label.
Destination ==
    [ label \in {"move_home", "move_school", "move_task_force_hq", "move_downtown"} |->
        IF label = "move_home" THEN "home"
        ELSE IF label = "move_school" THEN "school"
        ELSE IF label = "move_task_force_hq" THEN "task_force_hq"
        ELSE "downtown" ]

\* The TV-target message is among the event messages e.
TargetSeenIn(e) == \E i \in 1..Len(e) : e[i] = "tv_target_seen"

\* C22: a movement action sets location to its destination (the turn's win/lose
\* check alone can then end the game) and applies the destination's deltas: home L-1
\* and TaskForce-1, school TaskForce-1, task_force_hq TaskForce-2 and L+2, downtown
\* none.  tv_target_ready becomes true only from false, together with the TV message;
\* a move made with the flag true leaves it true and emits no TV message.
C22_MovementAndGrant ==
    [][ \A label \in DOMAIN Destination :
            ( /\ location \notin {"intro", "caught", "victory"}
              /\ CalledOn(label) )
            => /\ action_label' = label
               /\ \/ location' = Destination[label]
                  \/ /\ location' = "victory"
                     /\ suspicion_L' <= 40 /\ suspicion_task_force' <= 40 /\ turn' >= 10
                  \/ /\ location' = "caught"
                     /\ (suspicion_L' >= 100 \/ suspicion_task_force' >= 100)
               /\ suspicion_L' =
                      (IF label = "move_home" THEN Lowered(suspicion_L, 1)
                       ELSE IF label = "move_task_force_hq" THEN Raised(suspicion_L, 2)
                       ELSE suspicion_L)
               /\ suspicion_task_force' =
                      (IF label \in {"move_home", "move_school"}
                       THEN Lowered(suspicion_task_force, 1)
                       ELSE IF label = "move_task_force_hq"
                       THEN Lowered(suspicion_task_force, 2)
                       ELSE suspicion_task_force)
               /\ l_investigation_progress' = l_investigation_progress
               /\ IF FlagGet(flags, "tv_target_ready")
                  THEN flags' = flags /\ ~TargetSeenIn(event_messages')
                  ELSE \/ flags' = flags /\ ~TargetSeenIn(event_messages')
                       \/ /\ flags' = Put(flags, "tv_target_ready", TRUE)
                          /\ event_messages' = <<"tv_target_seen">> ]_vars

\* C22 witness: a move to school made with the flag already true: the flag is true
\* and no TV message was emitted.
C22_Witness ==
    /\ action_label = "move_school"
    /\ location = "school"
    /\ FlagGet(flags, "tv_target_ready")
    /\ event_messages = << >>

\* The meters after a call are the meters before it with dl added to suspicion_L and
\* dt to suspicion_task_force, each kept in [0,100]; the progress is unchanged.
MetersMoved(dl, dt) ==
    /\ suspicion_L' = (IF dl >= 0 THEN Raised(suspicion_L, dl) ELSE Lowered(suspicion_L, -dl))
    /\ suspicion_task_force' =
           (IF dt >= 0 THEN Raised(suspicion_task_force, dt)
            ELSE Lowered(suspicion_task_force, -dt))
    /\ l_investigation_progress' = l_investigation_progress

\* C23: the actions that draw nothing apply fixed deltas, each kept in [0,100]:
\* write_name with a TV target L+8 and TaskForce+5, and a further L+10 and TaskForce+10
\* at home with cameras_at_home true; watch_tv sets tv_target_ready, L+1, TaskForce+1;
\* alibi TaskForce-6, L+2; cooperate TaskForce-4, L+3; hide_notebook sets
\* notebook_hidden, L+1; lay_low L-2, TaskForce-1; other L+1.
C23_FixedDeltas ==
    [][ (location \notin {"intro", "caught", "victory"} /\ Called)
        => LET branch == BranchOfText[last_text']
               cameras == /\ location = "home"
                          /\ HasAttr(State, "cameras_at_home")
                          /\ attrs["cameras_at_home"]
           IN  /\ (branch = "write_name" /\ FlagGet(flags, "tv_target_ready"))
                  => /\ action_label' = "write_name"
                     /\ suspicion_L' =
                            (IF cameras THEN Raised(Raised(suspicion_L, 8), 10)
                             ELSE Raised(suspicion_L, 8))
                     /\ suspicion_task_force' =
                            (IF cameras THEN Raised(Raised(suspicion_task_force, 5), 10)
                             ELSE Raised(suspicion_task_force, 5))
               /\ branch = "watch_tv"
                  => MetersMoved(1, 1) /\ FlagGet(flags', "tv_target_ready")
               /\ branch = "alibi" => MetersMoved(2, -6)
               /\ branch = "cooperate" => MetersMoved(3, -4)
               /\ branch = "hide_notebook" => MetersMoved(1, 0) /\ notebook_hidden'
               /\ branch = "lay_low" => MetersMoved(-2, -1)
               /\ branch = "other" => MetersMoved(1, 0) ]_vars

\* C23 witness: an alibi turn met both limits: suspicion_L at 100, suspicion_task_force
\* at 0.
C23_Witness ==
    /\ action_label = "alibi"
    /\ suspicion_L = 100
    /\ suspicion_task_force = 0

\* C24: a status, help or look_around turn in a game in progress increments turn and
\* appends to history, changes no meter, location, progress, camera attribute or flag,
\* and requests no narration.
C24_InformationalTurns ==
    [][ \A branch \in {"status", "help", "look_around"} :
            ( /\ location \notin {"intro", "caught", "victory"}
              /\ CalledOn(branch) )
            => /\ turn' = turn + 1
               /\ Len(history') > Len(history)
               /\ SubSeq(history', 1, Len(history) + 1) = Append(history, "user")
               /\ Fields' = Fields
               /\ narration' = "not_requested" ]_vars

\* C24 witness: a help turn answered after a failed try for the name: the meters are
\* still the 32 and 18 that try left.
C24_Witness ==
    /\ system_output = "help"
    /\ action_label = "other"
    /\ turn = 3
    /\ suspicion_L = 32
    /\ suspicion_task_force = 18

C26_VictoryEarned ==
    /\ location = "victory"
       => \/ /\ FlagGet(flags, "l_name_known")
             /\ l_investigation_progress = 3
             /\ suspicion_L <= 70
             /\ turn >= 6
          \/ /\ suspicion_L <= 40
             /\ suspicion_task_force <= 40
             /\ turn >= 10
    /\ FlagGet(flags, "l_name_known") => location = "victory"

\* C26 witness: a win by the name, with suspicion_L above what the quiet win allows.
C26_Witness ==
    /\ location = "victory"
    /\ FlagGet(flags, "l_name_known")
    /\ suspicion_L > 40

\* C27: in every state, l_investigation_progress >= 1 implies second_kira_revealed is
\* true, and second_kira_friend true implies second_kira_revealed true.
C27_ProgressNeedsReveal ==
    /\ l_investigation_progress >= 1 => FlagGet(flags, "second_kira_revealed")
    /\ FlagGet(flags, "second_kira_friend") => FlagGet(flags, "second_kira_revealed")

\* C27 witness: the alliance was formed after the reveal, progress 2.
C27_Witness ==
    /\ FlagGet(flags, "second_kira_friend")
    /\ FlagGet(flags, "second_kira_revealed")
    /\ l_investigation_progress = 2
    /\ event_messages = <<"alliance_formed">>

\* The only request in flight loaded game_state before the last reset.
StaleRequestInFlight == in_flight # << >> /\ ~in_flight[1].shared

\* C28: under any interleaving of app.step and app.reset a completed reset is never
\* undone: while the only request in flight is one that started before the reset, the
\* session state is, and stays, the default state.
C28_ResetNeverUndone ==
    [][ StaleRequestInFlight => (State = GameState /\ State' = GameState) ]_vars

====
